---- MODULE Spec2Model ----
(***************************************************************************)
(* The threat feed of the dashboard (src/src/App.tsx): the `threats`       *)
(* collection fed by the snapshot fetch (fetchThreats) and the push        *)
(* channel (ws.onmessage), the detail selection (selectedThreat) and the   *)
(* mitigation handler (handleMitigate).  Every handler continuation runs   *)
(* to completion on the single JavaScript thread, so each is one action;   *)
(* an await splits a handler into the action that issues the request and   *)
(* the action that resolves it.  The map and globe views                   *)
(* (src/unnamed/part_000, src/src/Globe3D.tsx) are pure functions of the   *)
(* collection and of the clock; they are operators, exercised by push      *)
(* feeds of their own (SpecIngest, SpecClock, SpecStyle, SpecGlobe,        *)
(* SpecMap).  SpecRaces is the startup and the table without reloads,      *)
(* SpecFaults adds the push message that does not parse, and SpecTeardown  *)
(* the cleanup of the mount effect, with the fairness of settled requests. *)
(***************************************************************************)
EXTENDS Integers, Sequences, FiniteSets, Bags, TLC

VARIABLES
    threats,         \* useState<Threat[]>([])            App.tsx:45
    selectedThreat,  \* useState<Threat | null>(null)     App.tsx:81  (<<>> is null, <<t>> is t)
    fetching,        \* number of fetchThreats calls awaiting their response
    mitigating,      \* bag of handleMitigate calls awaiting their response
    alerts,          \* the alert() dialogs shown to the operator, oldest first
    now,             \* the clock new Date().getTime() reads, in milliseconds
    wsOpen,          \* the WebSocket of the mount effect is open
    unhandled,       \* exceptions that left a handler uncaught, oldest first
    inputs,          \* number of push deliveries and operator commands so far
    overlap,         \* history: ids whose mitigation was requested while one was in flight
    raced,           \* history: ids pushed while a mitigation call was in flight
    everMitigated,   \* history: ids the collection showed as Mitigated in an earlier state
    last             \* history: the handler step that led to this state

vars == <<threats, selectedThreat, fetching, mitigating, alerts, now, wsOpen,
          unhandled, inputs, overlap, raced, everMitigated, last>>

----------------------------------------------------------------------------
(* Bounds of the model and constants of the program. *)

Capacity == 50

MaxInputs == 2

MaxRow == 2

MaxDeliveries == 110

MaxFeed == 2

MaxPlotted == 1

MaxArcs == 50

FreshnessWindow == 10000

GlobeRadius == 2

ArcDivisions == 50

Min(a, b) == IF a < b THEN a ELSE b

----------------------------------------------------------------------------
(* Data. *)

Status == {"Detected", "Mitigated"}

\* Ids of the events the push channel and the short snapshots carry.
Ids == {1, 2}

\* A Threat record, reduced to the fields the feed logic reads or writes;
\* timestamp stands for the fields that only ride along.
Threat(id, status, timestamp) ==
    [id |-> id, status |-> status, timestamp |-> timestamp]

\* Records the push channel may deliver.
PushRecords == {Threat(id, st, 2) : id \in Ids, st \in Status}

\* Records a snapshot response may list.
SnapRecords == {Threat(id, st, 1) : id \in Ids, st \in Status}

\* Lists of at most two records with distinct ids: ids are the keys of the
\* backend's feed, so one response does not list an id twice.
ShortLists(S) ==
    {<<>>} \cup {<<r>> : r \in S}
        \cup {<<p[1], p[2]>> : p \in {x \in S \X S : x[1].id # x[2].id}}

\* A full feed of n distinct Detected events, ids 1..n.
LongList(n) == [i \in 1..n |-> Threat(i, "Detected", 1)]

\* Response lists of the snapshot endpoint: the short lists, and full feeds
\* just below and just above the capacity.
SnapshotLists ==
    ShortLists(SnapRecords) \cup {LongList(Capacity - 1), LongList(Capacity + 1)}

\* The k-th event of a feed of pairwise distinct new events.
Event(k) == Threat(k, "Detected", k)

----------------------------------------------------------------------------
(* Collaborator responses. *)

\* What `await fetch(.../threats)` and `response.json()` can give fetchThreats:
\* the request throws, or a response arrives with its ok flag and its list.
FetchResponses ==
    {[threw |-> TRUE, ok |-> FALSE, data |-> <<>>]}
        \cup {[threw |-> FALSE, ok |-> FALSE, data |-> <<>>]}
        \cup {[threw |-> FALSE, ok |-> TRUE, data |-> l] : l \in SnapshotLists}

Messages == {"Threat not found", "Rate limited", ""}

\* The body of a mitigation response as response.json() yields it: it fails to
\* parse, it is null, or it is an object whose message is absent (<<>>) or a
\* string (<<m>>).
Bodies ==
    {[kind |-> "unparseable", message |-> <<>>], [kind |-> "null", message |-> <<>>]}
        \cup {[kind |-> "object", message |-> <<>>]}
        \cup {[kind |-> "object", message |-> <<m>>] : m \in Messages}

NoBody == [kind |-> "null", message |-> <<>>]

MitigateResponses ==
    {[threw |-> TRUE, ok |-> FALSE, body |-> NoBody]}
        \cup {[threw |-> FALSE, ok |-> ok, body |-> b] : ok \in BOOLEAN, b \in Bodies}

\* Placeholders of `last` for the steps that carry no response or record.
NoFetchResponse == [threw |-> FALSE, ok |-> FALSE, data |-> <<>>]

NoMitigateResponse == [threw |-> FALSE, ok |-> FALSE, body |-> NoBody]

NoRecord == Threat(0, "", 0)

----------------------------------------------------------------------------
(* Pure functions of the handlers. *)

\* Array.prototype.slice(start, end) for 0 <= start <= end.
Slice(s, start, end) == SubSeq(s, start + 1, Min(end, Len(s)))

\* Faulty variant of LoadSnapshot: keeps the end of the list, data.slice(-50).
LoadSnapshotTail(data) ==
    SubSeq(data, (IF Len(data) > Capacity THEN Len(data) - Capacity ELSE 0) + 1, Len(data))

\* fetchThreats: the value handed to setThreats.
LoadSnapshot(data) == Slice(data, 0, Capacity)

\* Faulty variant of Prepend: no truncation, [data, ...prev].
PrependUncapped(data, prev) == <<data>> \o prev

\* Faulty variant of Prepend: the record goes to the end, [...prev, data].slice(0, 50).
PrependAtEnd(data, prev) == Slice(prev \o <<data>>, 0, Capacity)

\* ws.onmessage: the updater handed to setThreats.
Prepend(data, prev) == Slice(<<data>> \o prev, 0, Capacity)

\* Faulty variant of MarkMitigated: marks only the first entry with the id.
MarkFirstMitigated(prev, id) ==
    [i \in 1..Len(prev) |->
        IF prev[i].id = id /\ \A j \in 1..(i - 1) : prev[j].id # id
        THEN [prev[i] EXCEPT !.status = "Mitigated"] ELSE prev[i]]

\* Faulty variant of MarkMitigated: the marked entries are restamped.
MarkAndRestamp(prev, id) ==
    [i \in 1..Len(prev) |->
        IF prev[i].id = id
        THEN [prev[i] EXCEPT !.status = "Mitigated", !.timestamp = 0] ELSE prev[i]]

\* Faulty variant of MarkMitigated: the entries with another id are lost.
MarkMitigatedOnly(prev, id) ==
    LET Same(t) == t.id = id
        kept == SelectSeq(prev, Same)
    IN  [i \in 1..Len(kept) |-> [kept[i] EXCEPT !.status = "Mitigated"]]

\* updateLocalState: the updater handed to setThreats.
MarkMitigated(prev, id) ==
    [i \in 1..Len(prev) |->
        IF prev[i].id = id THEN [prev[i] EXCEPT !.status = "Mitigated"] ELSE prev[i]]

\* updateLocalState: the new selection.  `captured` is the id of the
\* selectedThreat of the render whose handleMitigate was called (<<>> for null);
\* `prev` is the selection at the time the updater runs.
MarkSelected(prev, captured, id) ==
    IF captured # <<>> /\ captured[1] = id
    THEN (IF prev # <<>> THEN <<[prev[1] EXCEPT !.status = "Mitigated"]>> ELSE <<>>)
    ELSE prev

\* Faulty variant of IsNotFound: the sentinel is spelled differently.
IsNotFoundOtherSpelling(body) == body.message = <<"Threat Not Found">>

\* data.message === "Threat not found"
IsNotFound(body) == body.message = <<"Threat not found">>

\* Faulty variant of AlertText: the message is not interpolated.
AlertTextGeneric(body) == <<"Mitigation failed: ", "Unknown error">>

\* `Mitigation failed: ${data.message || "Unknown error"}`, as the pair of the
\* literal prefix and the interpolated text.
AlertText(body) ==
    <<"Mitigation failed: ",
      IF body.message = <<>> \/ body.message = <<"">>
      THEN "Unknown error" ELSE body.message[1]>>

\* Faulty variant of Branch: the catch block reports instead of updating.
BranchCatchAlerts(resp) ==
    IF resp.threw THEN "alert"
    ELSE IF resp.body.kind = "unparseable" THEN "alert"
    ELSE IF resp.ok THEN "update"
    ELSE IF resp.body.kind = "null" THEN "alert"
    ELSE IF IsNotFound(resp.body) THEN "update"
    ELSE "alert"

\* Faulty variant of Branch: a body that does not parse is reported when the
\* response is not ok.
BranchUnparseableByStatus(resp) ==
    IF resp.threw THEN "update"
    ELSE IF resp.body.kind = "unparseable" THEN (IF resp.ok THEN "update" ELSE "alert")
    ELSE IF resp.ok THEN "update"
    ELSE IF resp.body.kind = "null" THEN "update"
    ELSE IF IsNotFound(resp.body) THEN "update"
    ELSE "alert"

\* The branch of handleMitigate a response ends in: "update" calls
\* updateLocalState, "alert" shows the failure.
Branch(resp) ==
    IF resp.threw THEN "update"                        \* fetch throws: catch
    ELSE IF resp.body.kind = "unparseable" THEN "update" \* response.json() throws: catch
    ELSE IF resp.ok THEN "update"
    ELSE IF resp.body.kind = "null" THEN "update"      \* data.message throws: catch
    ELSE IF IsNotFound(resp.body) THEN "update"
    ELSE "alert"

\* Ids the collection shows with status Mitigated.
ShownMitigated(ts) == {ts[i].id : i \in {j \in 1..Len(ts) : ts[j].status = "Mitigated"}}

----------------------------------------------------------------------------
(* The state machine. *)

\* The record kept in `last`: the step taken and its inputs.
Step(op, id, record, fetchResp, mitResp) ==
    [op |-> op, id |-> id, record |-> record, fetchResp |-> fetchResp,
     mitResp |-> mitResp]

\* After mount: the collection is empty, nothing is selected, and the effect
\* has issued the initial fetchThreats() and opened the push channel.
Init ==
    /\ threats = <<>>
    /\ selectedThreat = <<>>
    /\ fetching = 1
    /\ mitigating = EmptyBag
    /\ alerts = <<>>
    /\ now = 0
    /\ wsOpen = TRUE
    /\ unhandled = <<>>
    /\ raced = {}
    /\ inputs = 0
    /\ overlap = {}
    /\ everMitigated = {}
    /\ last = [op |-> "mount", id |-> 0, record |-> NoRecord,
               fetchResp |-> NoFetchResponse, mitResp |-> NoMitigateResponse]

\* The "Refresh Feed" button: fetchThreats up to its await.
Refresh ==
    /\ inputs < MaxInputs
    /\ inputs' = inputs + 1
    /\ fetching' = fetching + 1
    /\ last' = Step("refresh", 0, NoRecord, NoFetchResponse, NoMitigateResponse)
    /\ everMitigated' = everMitigated \cup ShownMitigated(threats)
    /\ UNCHANGED <<threats, selectedThreat, mitigating, alerts, now, wsOpen, unhandled, raced, overlap>>

\* Faulty variant of fetchThreats: a failed fetch empties the collection.
fetchThreatsClearing(resp) ==
    /\ fetching > 0
    /\ fetching' = fetching - 1
    /\ threats' = IF ~resp.threw /\ resp.ok THEN LoadSnapshot(resp.data) ELSE <<>>
    /\ everMitigated' = everMitigated \cup ShownMitigated(threats)
    /\ last' = Step("fetch", 0, NoRecord, resp, NoMitigateResponse)
    /\ UNCHANGED <<selectedThreat, mitigating, alerts, now, wsOpen, unhandled, raced, inputs, overlap>>

\* Faulty variant of fetchThreats: the snapshot is put behind the entries
\* already held.
fetchThreatsKeeping(resp) ==
    /\ fetching > 0
    /\ fetching' = fetching - 1
    /\ threats' = IF ~resp.threw /\ resp.ok
                  THEN Slice(threats \o resp.data, 0, Capacity) ELSE threats
    /\ everMitigated' = everMitigated \cup ShownMitigated(threats)
    /\ last' = Step("fetch", 0, NoRecord, resp, NoMitigateResponse)
    /\ UNCHANGED <<selectedThreat, mitigating, alerts, now, wsOpen, unhandled,
                   raced, inputs, overlap>>

\* fetchThreats from its await on: the collection is set only when the response
\* is ok; a thrown request is caught and logged.
fetchThreats(resp) ==
    /\ fetching > 0
    /\ fetching' = fetching - 1
    /\ threats' = IF ~resp.threw /\ resp.ok THEN LoadSnapshot(resp.data) ELSE threats
    /\ everMitigated' = everMitigated \cup ShownMitigated(threats)
    /\ last' = Step("fetch", 0, NoRecord, resp, NoMitigateResponse)
    /\ UNCHANGED <<selectedThreat, mitigating, alerts, now, wsOpen, unhandled, raced, inputs, overlap>>

\* ws.onmessage: the parsed record goes to the front of the collection.
onmessage(data) ==
    /\ wsOpen
    /\ threats' = Prepend(data, threats)
    /\ inputs' = inputs + 1
    /\ everMitigated' = everMitigated \cup ShownMitigated(threats)
    /\ last' = Step("message", data.id, data, NoFetchResponse, NoMitigateResponse)
    /\ raced' = raced \cup {data.id : c \in BagToSet(mitigating)}
    /\ UNCHANGED <<selectedThreat, fetching, mitigating, alerts, now, wsOpen,
                   unhandled, overlap>>

Push == \E data \in PushRecords : inputs < MaxInputs /\ onmessage(data)

\* A click on a table row (outside its button) opens the detail view.
SelectThreat(i) ==
    /\ i \in 1..Min(Len(threats), MaxRow)
    /\ selectedThreat' = <<threats[i]>>
    /\ last' = Step("select", threats[i].id, NoRecord, NoFetchResponse, NoMitigateResponse)
    /\ everMitigated' = everMitigated \cup ShownMitigated(threats)
    /\ UNCHANGED <<threats, fetching, mitigating, alerts, now, wsOpen, unhandled, raced, inputs, overlap>>

\* The close and dismiss buttons of the detail view.
CloseDetails ==
    /\ selectedThreat # <<>>
    /\ selectedThreat' = <<>>
    /\ last' = Step("close", 0, NoRecord, NoFetchResponse, NoMitigateResponse)
    /\ everMitigated' = everMitigated \cup ShownMitigated(threats)
    /\ UNCHANGED <<threats, fetching, mitigating, alerts, now, wsOpen, unhandled, raced, inputs, overlap>>

\* A handleMitigate call in flight: its argument and what its closure reads of
\* the selectedThreat it captured, the id (<<>> for null).
Call(id, captured) ==
    [id |-> id, selected |-> IF captured = <<>> THEN <<>> ELSE <<captured[1].id>>]

\* {id} when a handleMitigate(id) call is in flight, {} otherwise.
Requested(id) == {c.id : c \in {d \in BagToSet(mitigating) : d.id = id}}

\* The Mitigate button of a row, shown while the row is not Mitigated:
\* handleMitigate(threat.id) runs up to its await, then the click reaches the
\* row and selects the threat.
MitigateRow(i) ==
    /\ inputs < MaxInputs
    /\ i \in 1..Min(Len(threats), MaxRow)
    /\ threats[i].status # "Mitigated"
    /\ mitigating' = mitigating (+) SetToBag({Call(threats[i].id, selectedThreat)})
    /\ selectedThreat' = <<threats[i]>>
    /\ inputs' = inputs + 1
    /\ last' = Step("mitigateRow", threats[i].id, NoRecord, NoFetchResponse,
                    NoMitigateResponse)
    /\ everMitigated' = everMitigated \cup ShownMitigated(threats)
    /\ overlap' = overlap \cup Requested(threats[i].id)
    /\ UNCHANGED <<threats, fetching, alerts, now, wsOpen, unhandled, raced>>

\* The "Execute Protocol Override" button of the detail view, shown while the
\* selected copy is not Mitigated: handleMitigate(selectedThreat.id) up to its
\* await.
MitigateDetails ==
    /\ inputs < MaxInputs
    /\ selectedThreat # <<>>
    /\ selectedThreat[1].status # "Mitigated"
    /\ mitigating' = mitigating (+) SetToBag({Call(selectedThreat[1].id, selectedThreat)})
    /\ inputs' = inputs + 1
    /\ last' = Step("mitigateDetails", selectedThreat[1].id, NoRecord, NoFetchResponse,
                    NoMitigateResponse)
    /\ everMitigated' = everMitigated \cup ShownMitigated(threats)
    /\ overlap' = overlap \cup Requested(selectedThreat[1].id)
    /\ UNCHANGED <<threats, selectedThreat, fetching, alerts, now, wsOpen, unhandled, raced>>

\* Faulty variant of handleMitigate: a reported failure sets the entries back
\* to Detected.
handleMitigateRollback(call, resp) ==
    /\ BagIn(call, mitigating)
    /\ mitigating' = mitigating (-) SetToBag({call})
    /\ IF Branch(resp) = "update"
       THEN /\ threats' = MarkMitigated(threats, call.id)
            /\ selectedThreat' = MarkSelected(selectedThreat, call.selected, call.id)
            /\ alerts' = alerts
       ELSE /\ alerts' = Append(alerts, AlertText(resp.body))
            /\ threats' = [i \in 1..Len(threats) |->
                             IF threats[i].id = call.id
                             THEN [threats[i] EXCEPT !.status = "Detected"]
                             ELSE threats[i]]
            /\ UNCHANGED selectedThreat
    /\ everMitigated' = everMitigated \cup ShownMitigated(threats)
    /\ last' = Step("mitigate", call.id, NoRecord, NoFetchResponse, resp)
    /\ UNCHANGED <<fetching, now, wsOpen, unhandled, raced, inputs, overlap>>

\* handleMitigate from its await on, for one call in flight and the response
\* (or thrown request) it gets.
handleMitigate(call, resp) ==
    /\ BagIn(call, mitigating)
    /\ mitigating' = mitigating (-) SetToBag({call})
    /\ IF Branch(resp) = "update"
       THEN /\ threats' = MarkMitigated(threats, call.id)
            /\ selectedThreat' = MarkSelected(selectedThreat, call.selected, call.id)
            /\ alerts' = alerts
       ELSE /\ alerts' = Append(alerts, AlertText(resp.body))
            /\ UNCHANGED <<threats, selectedThreat>>
    /\ everMitigated' = everMitigated \cup ShownMitigated(threats)
    /\ last' = Step("mitigate", call.id, NoRecord, NoFetchResponse, resp)
    /\ UNCHANGED <<fetching, now, wsOpen, unhandled, raced, inputs, overlap>>

Next ==
    \/ Refresh
    \/ \E resp \in FetchResponses : fetchThreats(resp)
    \/ Push
    \/ \E i \in 1..MaxRow : SelectThreat(i)
    \/ CloseDetails
    \/ \E i \in 1..MaxRow : MitigateRow(i)
    \/ MitigateDetails
    \/ \E call \in BagToSet(mitigating), resp \in MitigateResponses :
           handleMitigate(call, resp)

Spec == Init /\ [][Next]_vars

\* A feed of pairwise distinct new events pushed into the empty collection,
\* after the initial fetch has failed: only the push channel acts.
InitDeliveries ==
    /\ threats = <<>>
    /\ selectedThreat = <<>>
    /\ fetching = 0
    /\ mitigating = EmptyBag
    /\ alerts = <<>>
    /\ now = 0
    /\ wsOpen = TRUE
    /\ unhandled = <<>>
    /\ raced = {}
    /\ inputs = 0
    /\ overlap = {}
    /\ everMitigated = {}
    /\ last = [op |-> "fetch", id |-> 0, record |-> NoRecord,
               fetchResp |-> [threw |-> TRUE, ok |-> FALSE, data |-> <<>>],
               mitResp |-> NoMitigateResponse]

Deliver == inputs < MaxDeliveries /\ onmessage(Event(inputs + 1))

SpecDeliveries == InitDeliveries /\ [][Deliver]_vars

\* The startup and the table without reloads: the initial fetch, pushes and
\* mitigations from the rows race with one another.
NextRaces ==
    \/ \E resp \in FetchResponses : fetchThreats(resp)
    \/ Push
    \/ \E i \in 1..MaxRow : MitigateRow(i)
    \/ \E call \in BagToSet(mitigating), resp \in MitigateResponses :
           handleMitigate(call, resp)

SpecRaces == Init /\ [][NextRaces]_vars

\* The cleanup of the mount effect, run when the component is unmounted:
\* ws.close().  Nothing cancels the requests in flight.
Cleanup ==
    /\ wsOpen
    /\ wsOpen' = FALSE
    /\ everMitigated' = everMitigated \cup ShownMitigated(threats)
    /\ last' = Step("cleanup", 0, NoRecord, NoFetchResponse, NoMitigateResponse)
    /\ UNCHANGED <<threats, selectedThreat, fetching, mitigating, alerts, now,
                   unhandled, inputs, overlap, raced>>

\* Faulty variant of Resolve: a call in flight is dropped with the socket.
ResolveWhileOpen ==
    \E call \in BagToSet(mitigating), resp \in MitigateResponses :
        wsOpen /\ handleMitigate(call, resp)

\* The response of some mitigation call in flight arrives.
Resolve ==
    \E call \in BagToSet(mitigating), resp \in MitigateResponses :
        handleMitigate(call, resp)

\* Pushes and the operator's commands on the table and the detail view until
\* the teardown; the calls in flight resolve before or after it.  Every
\* request settles: fetch resolves or rejects, so the resolution of a call in
\* flight is weakly fair.
NextTeardown ==
    \/ Push
    \/ \E i \in 1..MaxRow : wsOpen /\ SelectThreat(i)
    \/ wsOpen /\ CloseDetails
    \/ \E i \in 1..MaxRow : wsOpen /\ MitigateRow(i)
    \/ wsOpen /\ MitigateDetails
    \/ Cleanup
    \/ Resolve

SpecTeardown == InitDeliveries /\ [][NextTeardown]_vars /\ WF_vars(Resolve)

----------------------------------------------------------------------------
(* The map and globe views (src/unnamed/part_000, src/src/Globe3D.tsx):    *)
(* pure functions of the collection and of the clock, computed at render.  *)

\* The id of a parsed record that carries no id field (data.id is undefined).
NoId == 0

\* A timestamp string that Date parses to ms milliseconds, and one it cannot
\* parse.
Instant(ms) == [parses |-> TRUE, ms |-> ms]
Unparseable == [parses |-> FALSE, ms |-> 0]

\* The optional source_coords and target_coords fields: <<>> when absent.
Coords(lat, lon) == <<[lat |-> lat, lon |-> lon]>>
NoCoords == <<>>

\* A record of the Threat interface with the fields the views read.
Report(id, status, timestamp, type, severity, source_coords, target_coords) ==
    [id |-> id, status |-> status, timestamp |-> timestamp, type |-> type,
     severity |-> severity, source_coords |-> source_coords,
     target_coords |-> target_coords]

\* Faulty variant of visibleThreats: one pair of coordinates is enough.
visibleThreatsEitherCoords(activeThreats) ==
    LET Shown(t) == /\ t.status = "Detected"
                    /\ (t.source_coords # NoCoords \/ t.target_coords # NoCoords)
    IN  SelectSeq(activeThreats, Shown)

\* GeoMap's visibleThreats: the events the 2D map draws.
visibleThreats(activeThreats) ==
    LET Shown(t) == /\ t.status = "Detected"
                    /\ t.source_coords # NoCoords
                    /\ t.target_coords # NoCoords
    IN  SelectSeq(activeThreats, Shown)

\* The events AutoFitBounds takes its bounds from.
AutoFitBounds(ts) ==
    LET Placed(t) == t.source_coords # NoCoords
    IN  SelectSeq(ts, Placed)

\* Faulty variant of visibleThreats3D: the status is not looked at.
visibleThreats3DAnyStatus(activeThreats) ==
    LET Shown(t) == t.source_coords # NoCoords /\ t.target_coords # NoCoords
    IN  Slice(SelectSeq(activeThreats, Shown), 0, MaxArcs)

\* Globe3D's visibleThreats: the events the globe draws arcs and markers for.
visibleThreats3D(activeThreats) ==
    LET Shown(t) == /\ t.status = "Detected"
                    /\ t.source_coords # NoCoords
                    /\ t.target_coords # NoCoords
    IN  Slice(SelectSeq(activeThreats, Shown), 0, MaxArcs)

\* The push channel delivering records with or without an id and with or
\* without coordinates.
IngestRecords ==
    {Report(id, st, Instant(0), "DDoS", "High", src, tgt) :
        id \in {NoId} \cup Ids, st \in Status,
        src \in {NoCoords, Coords(30, 45)}, tgt \in {NoCoords, Coords(0, 0)}}

Ingest == \E data \in IngestRecords : inputs < MaxFeed /\ onmessage(data)

SpecIngest == InitDeliveries /\ [][Ingest]_vars

\* The push channel delivering events with or without coordinates, and the
\* operator mitigating them from the table.
MapRecords ==
    {Report(id, st, Instant(0), "DDoS", "High", src, tgt) :
        id \in Ids, st \in Status,
        src \in {NoCoords, Coords(30, 45)}, tgt \in {NoCoords, Coords(0, 0)}}

Located == \E data \in MapRecords : inputs < MaxFeed /\ onmessage(data)

NextMap ==
    \/ Located
    \/ \E i \in 1..MaxRow : MitigateRow(i)
    \/ \E call \in BagToSet(mitigating), resp \in MitigateResponses :
           handleMitigate(call, resp)

SpecMap == InitDeliveries /\ [][NextMap]_vars

\* ws.onmessage for a message whose text is not JSON: JSON.parse throws a
\* SyntaxError before setThreats is reached, and the handler has no try.
onmessageThrows ==
    /\ wsOpen
    /\ inputs < MaxFeed
    /\ unhandled' = Append(unhandled, "SyntaxError")
    /\ inputs' = inputs + 1
    /\ everMitigated' = everMitigated \cup ShownMitigated(threats)
    /\ last' = Step("message", NoId, NoRecord, NoFetchResponse, NoMitigateResponse)
    /\ UNCHANGED <<threats, selectedThreat, fetching, mitigating, alerts, now,
                   wsOpen, overlap, raced>>

NextFaults == NextMap \/ onmessageThrows

SpecFaults == InitDeliveries /\ [][NextFaults]_vars

\* new Date(timestamp).getTime(): <<ms>>, or <<>> for NaN when the string does
\* not parse.
getTime(timestamp) == IF timestamp.parses THEN <<timestamp.ms>> ELSE <<>>

\* Faulty variant of isNew: the window includes its end.
isNewInclusive(threat, currentTime) ==
    LET threatTime == getTime(threat.timestamp)
    IN  threatTime # <<>> /\ (currentTime - threatTime[1]) <= FreshnessWindow

\* Faulty variant of isNew: a timestamp ahead of the clock is not new.
isNewWithinWindow(threat, currentTime) ==
    LET threatTime == getTime(threat.timestamp)
    IN  /\ threatTime # <<>>
        /\ 0 <= currentTime - threatTime[1]
        /\ (currentTime - threatTime[1]) < FreshnessWindow

\* isNew of a source marker, for the clock reading currentTime taken at
\* render; a comparison with NaN is false.
isNew(threat, currentTime) ==
    LET threatTime == getTime(threat.timestamp)
    IN  threatTime # <<>> /\ (currentTime - threatTime[1]) < FreshnessWindow

\* Clock readings and timestamps on both sides of the ten seconds.
ClockReadings == {0, 1, 9999, 10000, 10001, 20000, 25000}

Timestamps == {Instant(0), Instant(1), Instant(10000), Instant(15000), Unparseable}

\* Time passes between two renders.
Tick ==
    /\ \E t \in ClockReadings : t > now /\ now' = t
    /\ everMitigated' = everMitigated \cup ShownMitigated(threats)
    /\ last' = Step("tick", 0, NoRecord, NoFetchResponse, NoMitigateResponse)
    /\ UNCHANGED <<threats, selectedThreat, fetching, mitigating, alerts,
                   wsOpen, unhandled, inputs, overlap, raced>>

\* The push channel delivering an event stamped by the backend.
Stamped ==
    \E ts \in Timestamps :
        /\ inputs < MaxFeed
        /\ onmessage(Report(inputs + 1, "Detected", ts, "DDoS", "High",
                            Coords(30, 45), Coords(0, 0)))

NextClock == Tick \/ Stamped

SpecClock == InitDeliveries /\ [][NextClock]_vars

\* The members every object literal inherits from Object.prototype, as the
\* text a template string makes of them.
ObjectPrototype ==
    "constructor" :> "function Object() { [native code] }"
    @@ "toString" :> "function toString() { [native code] }"
    @@ "valueOf" :> "function valueOf() { [native code] }"
    @@ "hasOwnProperty" :> "function hasOwnProperty() { [native code] }"

\* table[key] || fallback on an object literal: an own member, else an
\* inherited one (a function, which is truthy), else the fallback.
LookupOr(table, key, fallback) ==
    IF key \in DOMAIN table THEN table[key]
    ELSE IF key \in DOMAIN ObjectPrototype THEN ObjectPrototype[key]
    ELSE fallback

\* The colorMap literal of createPulsingIcon, AttackArc and Marker.
colorMap ==
    "Critical" :> "#ef4444" @@ "High" :> "#f97316"
    @@ "Medium" :> "#eab308" @@ "Low" :> "#3b82f6"

\* The 2D source marker icon.
createPulsingIcon(severity, attackType, new) ==
    [color |-> LookupOr(colorMap, severity, "#3b82f6"),
     attackType |-> attackType, isNew |-> new]

\* The 2D polyline color.
getSeverityColor(severity) ==
    CASE severity = "Critical" -> "#ef4444"
      [] severity = "High" -> "#f97316"
      [] severity = "Medium" -> "#eab308"
      [] OTHER -> "#3b82f6"

\* The color of a globe arc and of a globe marker.
AttackArcColor(severity) == LookupOr(colorMap, severity, "#3b82f6")

MarkerColor(severity) == LookupOr(colorMap, severity, "#3b82f6")

\* A stroke style; an absent member is <<>>.
Style(dashArray, weight, opacity) ==
    [dashArray |-> dashArray, weight |-> <<weight>>, opacity |-> <<opacity>>]

\* The attackStyles literal of getAttackPathStyle.
attackStyles ==
    "DDoS" :> Style(<<"5, 5">>, 3, "0.7")
    @@ "Brute Force" :> Style(<<"10, 5">>, 2, "0.6")
    @@ "Ransomware" :> Style(<<"15, 5, 5, 5">>, 3, "0.8")
    @@ "Phishing" :> Style(<<"2, 8">>, 2, "0.5")
    @@ "SQL Injection" :> Style(<<"8, 3, 2, 3">>, 2, "0.6")
    @@ "Zero-Day Exploit" :> Style(<<>>, 4, "0.9")
    @@ "Supply Chain Attack" :> Style(<<"20, 10">>, 3, "0.7")
    @@ "AI-Powered Attack" :> Style(<<"3, 3">>, 3, "0.8")
    @@ "Cryptojacking" :> Style(<<"12, 8">>, 2, "0.5")
    @@ "API Abuse" :> Style(<<"6, 4">>, 2, "0.6")
    @@ "IoT Botnet" :> Style(<<"4, 6">>, 2, "0.6")
    @@ "Credential Stuffing" :> Style(<<"10, 10">>, 2, "0.6")
    @@ "Port Scan" :> Style(<<"1, 4">>, 1, "0.4")
    @@ "Unauthorized Access" :> Style(<<"7, 7">>, 2, "0.6")

\* The style of a 2D polyline: { ...style, color: baseColor }.  Spreading an
\* inherited member, a function, copies no stroke member.
getAttackPathStyle(attackType, severity) ==
    LET baseColor == getSeverityColor(severity)
        style == IF attackType \in DOMAIN attackStyles THEN attackStyles[attackType]
                 ELSE IF attackType \in DOMAIN ObjectPrototype
                      THEN [dashArray |-> <<>>, weight |-> <<>>, opacity |-> <<>>]
                 ELSE Style(<<>>, 2, "0.6")
    IN  [dashArray |-> style.dashArray, weight |-> style.weight,
         opacity |-> style.opacity, color |-> baseColor]

\* Severities and attack types the backend may send: the known ones, unknown
\* ones, and names of inherited members.
Severities == DOMAIN colorMap \cup {"Info", "critical", "constructor"}

AttackTypes == DOMAIN attackStyles \cup {"Malware", "constructor"}

\* The push channel delivering an event of any type and severity.
Classified ==
    \E ty \in AttackTypes, sev \in Severities :
        /\ inputs < MaxFeed
        /\ onmessage(Report(inputs + 1, "Detected", Instant(0), ty, sev,
                            Coords(30, 45), Coords(0, 0)))

SpecStyle == InitDeliveries /\ [][Classified]_vars

\* Exact numbers of the form sign * sqrt(num) / den, closed under product:
\* the sines and cosines of the multiples of 30 and 45 degrees are of this
\* form with den = 2.
Surd(sign, num, den) == [sign |-> IF num = 0 THEN 0 ELSE sign, num |-> num, den |-> den]

Whole(n) == Surd(IF n < 0 THEN -1 ELSE 1, n * n, 1)

Times(a, b) == Surd(a.sign * b.sign, a.num * b.num, a.den * b.den)

Negate(a) == Surd(-a.sign, a.num, a.den)

\* Math.sin and Math.cos of an angle of deg * (Math.PI / 180) radians.
sin(deg) ==
    LET turn == deg % 360
        half == turn % 180
        acute == IF half > 90 THEN 180 - half ELSE half
        num == CASE acute = 0 -> 0
                 [] acute = 30 -> 1
                 [] acute = 45 -> 2
                 [] acute = 60 -> 3
                 [] acute = 90 -> 4
    IN  Surd(IF turn < 180 THEN 1 ELSE -1, num, 2)

cos(deg) == sin(deg + 90)

\* Faulty variant of latLonToVector3: the height is taken from the sine.
latLonToVector3Flat(lat, lon, radius) ==
    LET phi == 90 - lat
        theta == lon + 180
    IN  [x |-> Times(Times(Negate(Whole(radius)), sin(phi)), cos(theta)),
         y |-> Times(Whole(radius), sin(phi)),
         z |-> Times(Times(Whole(radius), sin(phi)), sin(theta))]

\* latLonToVector3: phi and theta are kept in degrees, the factor
\* Math.PI / 180 being applied by sin and cos.
latLonToVector3(lat, lon, radius) ==
    LET phi == 90 - lat
        theta == lon + 180
    IN  [x |-> Times(Times(Negate(Whole(radius)), sin(phi)), cos(theta)),
         y |-> Times(Whole(radius), cos(phi)),
         z |-> Times(Times(Whole(radius), sin(phi)), sin(theta))]

\* The control point of an arc: the midpoint of the two ends, normalized and
\* scaled to radius + distance * 0.3.  Kept as the expression it is.
ControlPoint(sourceVec, targetVec, radius) ==
    [above |-> <<sourceVec, targetVec>>, radius |-> radius, lift |-> "0.3"]

\* new THREE.QuadraticBezierCurve3(v0, v1, v2)
QuadraticBezierCurve3(v0, v1, v2) == [v0 |-> v0, v1 |-> v1, v2 |-> v2]

\* curve.getPoint(d / divisions): (1-t)^2 v0 + 2(1-t)t v1 + t^2 v2, with the
\* weights over divisions^2.  With weights 1, 0, 0 the sum is v0 itself, with
\* 0, 0, 1 it is v2; any other point is kept as its weights.
getPoint(curve, d, divisions) ==
    LET w0 == (divisions - d) * (divisions - d)
        w1 == 2 * (divisions - d) * d
        w2 == d * d
    IN  IF w1 = 0 /\ w2 = 0 THEN curve.v0
        ELSE IF w0 = 0 /\ w1 = 0 THEN curve.v2
        ELSE [weights |-> <<w0, w1, w2>>, over |-> divisions * divisions, of |-> curve]

\* Faulty variant of getPoints: the end of the curve is not sampled.
getPointsOpen(curve, divisions) ==
    [k \in 1..divisions |-> getPoint(curve, k - 1, divisions)]

\* curve.getPoints(divisions): the points at d / divisions for d = 0..divisions.
getPoints(curve, divisions) ==
    [k \in 1..(divisions + 1) |-> getPoint(curve, k - 1, divisions)]

\* The points of AttackArc.
AttackArc(source, target) ==
    LET radius == GlobeRadius
        sourceVec == latLonToVector3(source.lat, source.lon, radius)
        targetVec == latLonToVector3(target.lat, target.lon, radius)
        controlPoint == ControlPoint(sourceVec, targetVec, radius)
        curve == QuadraticBezierCurve3(sourceVec, controlPoint, targetVec)
    IN  getPoints(curve, ArcDivisions)

\* Latitudes and longitudes of the whole valid range on which sin and cos are
\* exact, and the radii tried.
Latitudes == {-90, -60, -45, -30, 0, 30, 45, 60, 90}

Longitudes == {-180, -150, -135, -120, -90, -60, -45, -30, 0,
               30, 45, 60, 90, 120, 135, 150, 180}

Radii == {1, 2, 3}

\* The targets attacked: the north pole and a point with three irrational
\* coordinates.
Targets == {Coords(90, 0), Coords(-30, 135)}

\* The push channel delivering an attack from anywhere on the lattice onto
\* one of the targets.
Plotted ==
    \E lat \in Latitudes, lon \in Longitudes, target \in Targets :
        /\ inputs < MaxPlotted
        /\ onmessage(Report(inputs + 1, "Detected", Instant(0), "DDoS", "High",
                            Coords(lat, lon), target))

SpecGlobe == InitDeliveries /\ [][Plotted]_vars

----------------------------------------------------------------------------
(* Properties. *)

\* Entries of a collection with a given id.
EntriesOf(ts, id) == {i \in 1..Len(ts) : ts[i].id = id}

\* The step just taken resolved a mitigation call with a parsed object body.
ResolvedWithObject(l) ==
    l.op = "mitigate" /\ ~l.mitResp.threw /\ l.mitResp.body.kind = "object"

\* C1. Capacity: in every reachable state the threat collection holds at most
\* 50 entries, whatever snapshot loads, push deliveries and mitigation
\* resolutions led there.
C1_Capacity == Len(threats) <= Capacity

\* A push was delivered into a full collection: the collection is still full
\* and its last entry is the one that was second to last.
C1_Witness ==
    /\ last.op = "message"
    /\ Len(threats) = Capacity
    /\ threats[Capacity].id = Capacity - 1

\* C2. Uniqueness: in every reachable state at most one entry of the
\* collection has any given id.
C2_UniqueIds ==
    \A i, j \in 1..Len(threats) : threats[i].id = threats[j].id => i = j

\* C3. Status monotonicity: an id the collection showed with status Mitigated
\* in an earlier state is never shown with status Detected.
C3_StatusMonotone ==
    \A i \in 1..Len(threats) :
        threats[i].status = "Detected" => threats[i].id \notin everMitigated

\* C4. A push of an id already in the collection updates in place: length and
\* order of ids are unchanged by the delivery, and the entry with that id
\* carries the fields of the pushed record.
C4_PushUpdatesInPlace ==
    [][(last'.op = "message" /\ EntriesOf(threats, last'.id) # {})
        => /\ Len(threats') = Len(threats)
           /\ \A i \in 1..Len(threats) : threats'[i].id = threats[i].id
           /\ \A i \in EntriesOf(threats', last'.id) : threats'[i] = last'.record]_vars

\* C5. After k deliveries of pairwise distinct new events into the empty
\* collection, the collection is the last min(k, 50) delivered events, newest
\* first.
C5_LastDeliveriesNewestFirst ==
    /\ Len(threats) = Min(inputs, Capacity)
    /\ \A i \in 1..Len(threats) : threats[i] = Event(inputs - i + 1)

\* 60 events were delivered: 50 are kept, the oldest kept is the 11th.
C5_Witness ==
    /\ last.op = "message"
    /\ inputs = 60
    /\ Len(threats) = 50
    /\ threats[1] = Event(60)
    /\ threats[50] = Event(11)

\* C6. After a snapshot fetch resolves successfully with list L, the
\* collection is the first min(50, |L|) records of L, in L's order.
C6_SnapshotLoaded ==
    (last.op = "fetch" /\ ~last.fetchResp.threw /\ last.fetchResp.ok)
        => /\ Len(threats) = Min(Capacity, Len(last.fetchResp.data))
           /\ \A i \in 1..Len(threats) : threats[i] = last.fetchResp.data[i]

\* A snapshot longer than the capacity was loaded.
C6_Witness ==
    /\ last.op = "fetch"
    /\ ~last.fetchResp.threw
    /\ last.fetchResp.ok
    /\ Len(last.fetchResp.data) > Capacity
    /\ Len(threats) = Capacity

\* C7. When a mitigation call for id X resolves with an ok response, every
\* entry that had id X at that moment has id X and status Mitigated afterwards.
C7_ConfirmedMarksMitigated ==
    [][(last'.op = "mitigate" /\ ~last'.mitResp.threw /\ last'.mitResp.ok)
        => \A i \in EntriesOf(threats, last'.id) :
               /\ i <= Len(threats')
               /\ threats'[i].id = last'.id
               /\ threats'[i].status = "Mitigated"]_vars

\* An ok response has just turned an entry that was never shown Mitigated
\* before into a Mitigated one.
C7_Witness ==
    /\ ResolvedWithObject(last)
    /\ last.mitResp.ok
    /\ last.id \notin everMitigated
    /\ \E i \in EntriesOf(threats, last.id) : threats[i].status = "Mitigated"

\* C8. When a mitigation call for id X resolves with a non-ok response whose
\* message is exactly "Threat not found", every entry with id X becomes
\* Mitigated and no alert is shown.
C8_NotFoundMarksMitigated ==
    [][(ResolvedWithObject(last') /\ ~last'.mitResp.ok
            /\ last'.mitResp.body.message = <<"Threat not found">>)
        => /\ \A i \in EntriesOf(threats, last'.id) :
                  /\ i <= Len(threats')
                  /\ threats'[i].id = last'.id
                  /\ threats'[i].status = "Mitigated"
           /\ alerts' = alerts]_vars

\* A "Threat not found" response has just turned an entry that was never shown
\* Mitigated before into a Mitigated one.
C8_Witness ==
    /\ ResolvedWithObject(last)
    /\ ~last.mitResp.ok
    /\ last.mitResp.body.message = <<"Threat not found">>
    /\ last.id \notin everMitigated
    /\ \E i \in EntriesOf(threats, last.id) : threats[i].status = "Mitigated"

\* The step just taken resolved a mitigation call with a non-ok response whose
\* body is an object that does not carry the "Threat not found" sentinel.
RejectedOtherwise(l) ==
    /\ ResolvedWithObject(l)
    /\ ~l.mitResp.ok
    /\ l.mitResp.body.message # <<"Threat not found">>

\* C9 as stated: when a mitigation call for id X resolves with a non-ok
\* response whose message is some text other than "Threat not found", the
\* entry with id X (where the collection holds exactly one) has status
\* Detected afterwards and the alert shows that message.
C9_RejectedLeavesDetected ==
    [][(RejectedOtherwise(last') /\ last'.mitResp.body.message \notin {<<>>, <<"">>})
        => /\ Cardinality(EntriesOf(threats', last'.id)) = 1
                  => \A i \in EntriesOf(threats', last'.id) : threats'[i].status = "Detected"
           /\ alerts' = Append(alerts,
                  <<"Mitigation failed: ", last'.mitResp.body.message[1]>>)]_vars

\* C9, amended: such a response leaves the collection and the selection as
\* they were, whatever the status of X, and shows one alert: "Mitigation
\* failed: " followed by the message, or by "Unknown error" when the message
\* is empty or absent.
C9_RejectedLeavesUnchanged ==
    [][RejectedOtherwise(last')
        => /\ threats' = threats
           /\ selectedThreat' = selectedThreat
           /\ alerts' = Append(alerts,
                  <<"Mitigation failed: ",
                    IF last'.mitResp.body.message \in {<<>>, <<"">>}
                    THEN "Unknown error" ELSE last'.mitResp.body.message[1]>>)]_vars

\* A "Rate limited" response has just been reported while the entry is
\* Detected.
C9_Witness ==
    /\ RejectedOtherwise(last)
    /\ last.mitResp.body.message = <<"Rate limited">>
    /\ alerts # <<>>
    /\ alerts[Len(alerts)] = <<"Mitigation failed: ", "Rate limited">>
    /\ \E i \in EntriesOf(threats, last.id) : threats[i].status = "Detected"

\* C10. When the request of a mitigation call for id X throws, every entry
\* with id X becomes Mitigated and no alert is shown.
C10_TransportFailureMarksMitigated ==
    [][(last'.op = "mitigate" /\ last'.mitResp.threw)
        => /\ \A i \in EntriesOf(threats, last'.id) :
                  /\ i <= Len(threats')
                  /\ threats'[i].id = last'.id
                  /\ threats'[i].status = "Mitigated"
           /\ alerts' = alerts]_vars

\* A thrown request has just turned an entry that was never shown Mitigated
\* before into a Mitigated one.
C10_Witness ==
    /\ last.op = "mitigate"
    /\ last.mitResp.threw
    /\ last.id \notin everMitigated
    /\ \E i \in EntriesOf(threats, last.id) : threats[i].status = "Mitigated"

\* C11. Optimistic update: right after mitigate(X) is invoked, while its
\* backend call is still in flight, every entry with id X shows status
\* Mitigated.
C11_OptimisticUpdate ==
    last.op \in {"mitigateRow", "mitigateDetails"}
        => \A i \in EntriesOf(threats, last.id) : threats[i].status = "Mitigated"

\* C12. A snapshot fetch that throws or whose response is not ok leaves the
\* collection as it was and shows no alert.
C12_FailedFetchKeepsCollection ==
    [][(last'.op = "fetch" /\ (last'.fetchResp.threw \/ ~last'.fetchResp.ok))
        => threats' = threats /\ alerts' = alerts]_vars

\* A fetch has just been refused with a non-ok response while the collection
\* holds events.
C12_Witness ==
    /\ last.op = "fetch"
    /\ ~last.fetchResp.threw
    /\ ~last.fetchResp.ok
    /\ threats # <<>>
    /\ alerts = <<>>

\* C20. When a second mitigate(X) was issued while the first was in flight,
\* then once both calls have resolved, whatever their outcomes and order,
\* every entry with id X shows status Mitigated.
C20_OverlappingMitigationsConverge ==
    (last.op = "mitigate" /\ last.id \in overlap /\ Requested(last.id) = {})
        => \A i \in EntriesOf(threats, last.id) : threats[i].status = "Mitigated"

\* Both pairs of coordinates are present on an event.
HasBothCoords(t) == t.source_coords # NoCoords /\ t.target_coords # NoCoords

\* The events of a list.
Range(ts) == {ts[i] : i \in 1..Len(ts)}

\* C13. A push message whose record has no id is dropped: the collection
\* after its delivery equals the collection before it.
C13_RecordWithoutIdDropped ==
    [][(last'.op = "message" /\ last'.record.id = NoId) => threats' = threats]_vars

\* C16. Every event handed to the 2D map (polylines, markers, auto-fit
\* bounds) and to the globe (arcs, markers) has both source and target
\* coordinates; an event lacking either is in none of these lists, and the
\* lists are taken from the collection, which keeps the event.
C16_RenderedHaveCoords ==
    LET drawn == Range(visibleThreats(threats))
                    \cup Range(AutoFitBounds(visibleThreats(threats)))
                    \cup Range(visibleThreats3D(threats))
    IN  /\ \A t \in drawn : HasBothCoords(t) /\ t \in Range(threats)
        /\ \A t \in Range(threats) : ~HasBothCoords(t) => t \notin drawn

\* The collection holds a detected event without target coordinates next to
\* a detected event with both; only the second is drawn, on the map and on
\* the globe.
C16_Witness ==
    /\ Len(threats) = 2
    /\ threats[1].status = "Detected"
    /\ threats[1].source_coords # NoCoords
    /\ threats[1].target_coords = NoCoords
    /\ threats[2].status = "Detected"
    /\ visibleThreats(threats) = <<threats[2]>>
    /\ visibleThreats3D(threats) = <<threats[2]>>
    /\ AutoFitBounds(visibleThreats(threats)) = <<threats[2]>>

\* C14. An event is fresh exactly when the clock minus its timestamp is
\* strictly less than 10 000 ms, so it is not fresh at a difference of exactly
\* 10 000 ms; freshness is a function of the timestamp and the clock: the
\* event carries no flag, and two events with one timestamp are equally fresh.
C14_FreshWithinWindow ==
    \A t \in Range(threats) :
        /\ t.timestamp.parses
            => /\ isNew(t, now) <=> (now - t.timestamp.ms < 10000)
               /\ now - t.timestamp.ms = 10000 => ~isNew(t, now)
        /\ ~t.timestamp.parses => ~isNew(t, now)
        /\ "isNew" \notin DOMAIN t
        /\ \A u \in Range(threats) :
              u.timestamp = t.timestamp => isNew(u, now) = isNew(t, now)

\* At clock 10 000 an event stamped 0 is no longer fresh and an event
\* stamped 1 still is.
C14_Witness ==
    /\ now = 10000
    /\ \E t \in Range(threats) : t.timestamp = Instant(0) /\ ~isNew(t, now)
    /\ \E t \in Range(threats) : t.timestamp = Instant(1) /\ isNew(t, now)

\* C15 as stated. An event is fresh immediately after its ingestion (here for
\* events whose timestamp parses and is not ahead of the clock).
C15_FreshAtIngestion ==
    [][(/\ last'.op = "message"
        /\ last'.record.timestamp.parses
        /\ last'.record.timestamp.ms <= now')
        => isNew(threats'[1], now')]_vars

\* C15, amended. An event is fresh right after its ingestion at t0 exactly
\* when its timestamp parses and t0 minus the timestamp is less than 10 s; it
\* is not fresh at any time t >= timestamp + 10 s; and the passing of time
\* changes no stored event.
C15_FreshnessFollowsTimestamp ==
    [][/\ last'.op = "message"
          => (isNew(threats'[1], now')
                <=> /\ last'.record.timestamp.parses
                    /\ now' - last'.record.timestamp.ms < FreshnessWindow)
       /\ last'.op = "tick"
          => /\ threats' = threats
             /\ \A t \in Range(threats') :
                   (t.timestamp.parses /\ now' >= t.timestamp.ms + FreshnessWindow)
                       => ~isNew(t, now')]_vars

\* The clock has just advanced to 20 000: the event stamped 15 000 is fresh,
\* the one stamped 10 000 has stopped being fresh, and no operation touched
\* either.
C15_Witness ==
    /\ last.op = "tick"
    /\ now = 20000
    /\ Len(threats) = 2
    /\ threats[1].timestamp = Instant(15000) /\ isNew(threats[1], now)
    /\ threats[2].timestamp = Instant(10000) /\ ~isNew(threats[2], now)

\* C17. The severity colors are Critical #ef4444, High #f97316, Medium
\* #eab308, Low and every other severity #3b82f6, and the 2D marker, the 2D
\* polyline, the globe arc and the globe marker give the same color for every
\* severity.
C17_SeverityColorsAgree ==
    \A t \in Range(threats) :
        LET severity == t.severity
            expected == IF severity \in {"Critical", "High", "Medium"}
                        THEN colorMap[severity] ELSE "#3b82f6"
        IN  /\ getSeverityColor(severity) = expected
            /\ createPulsingIcon(severity, t.type, FALSE).color = expected
            /\ AttackArcColor(severity) = expected
            /\ MarkerColor(severity) = expected

\* C18. The stroke weight, opacity and dash pattern of a path are those of
\* the table entry of its attack type, or weight 2, opacity 0.6 and no dash
\* for a type outside the 14 of the table, whatever the severity; its color is
\* the color of its severity, whatever the attack type.
C18_PathStyleByType ==
    \A t \in Range(threats) :
        LET style == getAttackPathStyle(t.type, t.severity)
            stroke == IF t.type \in DOMAIN attackStyles
                      THEN attackStyles[t.type] ELSE Style(<<>>, 2, "0.6")
        IN  /\ Cardinality(DOMAIN attackStyles) = 14
            /\ style.weight = stroke.weight
            /\ style.opacity = stroke.opacity
            /\ style.dashArray = stroke.dashArray
            /\ style.color = getSeverityColor(t.severity)

\* Sixteen times the squared norm of a vector of surds with den 1, 2 or 4.
NormSquared16(v) ==
    LET Sq16(a) == a.num * (16 \div (a.den * a.den))
    IN  Sq16(v.x) + Sq16(v.y) + Sq16(v.z)

\* A surd equals the whole number n.
IsWhole(a, n) ==
    /\ a.sign = (IF n = 0 THEN 0 ELSE IF n < 0 THEN -1 ELSE 1)
    /\ a.num = (n * a.den) * (n * a.den)

\* C19. For every latitude in [-90, 90], longitude in [-180, 180] and radius
\* r, the point of latLonToVector3 has norm r, and latLonToVector3(90, 0, 2)
\* is (0, 2, 0); stated for the endpoints of every arc the globe draws.
C19_PointOnSphere ==
    \A t \in Range(visibleThreats3D(threats)) :
        \A c \in {t.source_coords[1], t.target_coords[1]} :
            /\ c.lat \in -90..90 /\ c.lon \in -180..180
            /\ \A r \in Radii :
                  NormSquared16(latLonToVector3(c.lat, c.lon, r)) = 16 * r * r
            /\ (c.lat = 90 /\ c.lon = 0)
                  => LET p == latLonToVector3(c.lat, c.lon, 2)
                     IN  IsWhole(p.x, 0) /\ IsWhole(p.y, 2) /\ IsWhole(p.z, 0)

\* The globe draws an arc from (-45, 150), a point with three irrational
\* coordinates, to the north pole.
C19_Witness ==
    /\ Len(visibleThreats3D(threats)) = 1
    /\ threats[1].source_coords = Coords(-45, 150)
    /\ threats[1].target_coords = Coords(90, 0)
    /\ latLonToVector3(-45, 150, 2).x = Surd(-1, 24, 4)
    /\ latLonToVector3(-45, 150, 2).y = Surd(-1, 8, 2)
    /\ latLonToVector3(-45, 150, 2).z = Surd(-1, 8, 4)

\* The selected copy shows the status of every entry with its id.
Consistent(ts, sel) ==
    sel = <<>> \/ \A i \in EntriesOf(ts, sel[1].id) : ts[i].status = sel[1].status

\* C24. The selected copy and the collection entry with its id show the same
\* status; stated for the resolution of a mitigation call: when they agree
\* before the call resolves they agree after it.
C24_SelectedCopyConsistent ==
    [][(last'.op = "mitigate" /\ Consistent(threats, selectedThreat))
        => Consistent(threats', selectedThreat')]_vars

\* C25. A mitigation resolution that marks id X changes only the status of
\* the entries with id X: same length, same order, every other entry and
\* every other field as before, and the same collection when no entry has
\* id X.
C25_MarkChangesOnlyStatusOfX ==
    [][(last'.op = "mitigate" /\ Branch(last'.mitResp) = "update")
        => /\ Len(threats') = Len(threats)
           /\ \A i \in 1..Len(threats) :
                 threats'[i] = IF threats[i].id = last'.id
                               THEN [threats[i] EXCEPT !.status = "Mitigated"]
                               ELSE threats[i]
           /\ EntriesOf(threats, last'.id) = {} => threats' = threats]_vars

\* A call for id 1 was confirmed after a snapshot had replaced entry 1 by
\* entry 2: the collection holds entry 2 alone, still Detected.
C25_Witness ==
    /\ last.op = "mitigate"
    /\ Branch(last.mitResp) = "update"
    /\ last.id = 1
    /\ EntriesOf(threats, 1) = {}
    /\ Len(threats) = 1
    /\ threats[1].status = "Detected"

\* C26. A mitigation call resolving with a non-ok response whose message is
\* not "Threat not found" leaves every entry as it was; an entry with id X
\* that was Mitigated when the call resolved is Mitigated afterwards.
C26_RejectionSetsNothingBack ==
    [][RejectedOtherwise(last')
        => /\ Len(threats') = Len(threats)
           /\ \A i \in 1..Len(threats) : threats'[i] = threats[i]
           /\ \A i \in EntriesOf(threats, last'.id) :
                 threats[i].status = "Mitigated" => threats'[i].status = "Mitigated"]_vars

\* Two calls for one id overlapped; the entry was marked when the first
\* resolved and is still Mitigated after the second was rejected.
C26_Witness ==
    /\ RejectedOtherwise(last)
    /\ last.id \in overlap
    /\ last.id \in everMitigated
    /\ mitigating = EmptyBag
    /\ EntriesOf(threats, last.id) # {}
    /\ \A i \in EntriesOf(threats, last.id) : threats[i].status = "Mitigated"

\* C27. No lost update: the resolution of a mitigation call, whatever its
\* outcome, keeps every entry of the collection as it is at that moment, in
\* place, changing at most the status of entries with the call's id; so an
\* event pushed while the call was in flight is still there afterwards.
C27_PushesSurviveResolution ==
    [][last'.op = "mitigate"
        => /\ Len(threats') = Len(threats)
           /\ \A i \in 1..Len(threats) :
                 /\ threats'[i].id = threats[i].id
                 /\ threats'[i].timestamp = threats[i].timestamp
                 /\ threats[i].id # last'.id => threats'[i] = threats[i]
           /\ \A id \in raced : EntriesOf(threats', id) = EntriesOf(threats, id)]_vars

\* Event 2 was pushed while the call for id 1 was in flight; the call has
\* resolved and marked entry 1, and event 2 is at the front.
C27_Witness ==
    /\ last.op = "mitigate"
    /\ last.id = 1
    /\ 2 \in raced
    /\ Len(threats) = 2
    /\ threats[1].id = 2
    /\ threats[2].id = 1
    /\ threats[2].status = "Mitigated"

\* C28. After a successful snapshot response the collection holds entries of
\* the response only: an event pushed while the fetch was in flight is absent
\* unless the response contains it.
C28_SnapshotOverwritesPushes ==
    [][(last'.op = "fetch" /\ ~last'.fetchResp.threw /\ last'.fetchResp.ok)
        => /\ Len(threats') <= Len(last'.fetchResp.data)
           /\ \A i \in 1..Len(threats') : threats'[i] = last'.fetchResp.data[i]
           /\ \A id \in Ids :
                 EntriesOf(threats', id) # {} => EntriesOf(last'.fetchResp.data, id) # {}]_vars

\* Startup: the one input so far was a push, delivered while the initial
\* fetch was in flight; the fetch has resolved with a snapshot that holds
\* event 2 only, and the pushed event is gone.
C28_Witness ==
    /\ last.op = "fetch"
    /\ last.fetchResp.ok
    /\ inputs = 1
    /\ fetching = 0
    /\ Len(threats) = 1
    /\ threats[1].id = 2

\* C29. A mitigation response whose body cannot be parsed is handled like a
\* thrown request, whatever its ok flag: every entry with id X becomes
\* Mitigated and no alert is shown.
C29_UnparseableBodyMarksMitigated ==
    [][(last'.op = "mitigate" /\ ~last'.mitResp.threw
            /\ last'.mitResp.body.kind = "unparseable")
        => /\ threats' = MarkMitigated(threats, last'.id)
           /\ \A i \in EntriesOf(threats', last'.id) : threats'[i].status = "Mitigated"
           /\ alerts' = alerts]_vars

\* A non-ok response with an unparseable body has just marked the entry.
C29_Witness ==
    /\ last.op = "mitigate"
    /\ ~last.mitResp.threw
    /\ ~last.mitResp.ok
    /\ last.mitResp.body.kind = "unparseable"
    /\ alerts = <<>>
    /\ \E i \in EntriesOf(threats, last.id) : threats[i].status = "Mitigated"

\* C30. The events drawn on the 2D map and on the globe are collection
\* entries whose status is Detected; an entry that is Mitigated is in neither
\* list; and the globe's list is the first 50, at most, of the map's list.
C30_DrawnAreDetected ==
    LET map2D == visibleThreats(threats)
        globe == visibleThreats3D(threats)
    IN  /\ \A t \in Range(map2D) \cup Range(globe) :
              t.status = "Detected" /\ t \in Range(threats)
        /\ \A t \in Range(threats) :
              t.status = "Mitigated" => t \notin Range(map2D) \cup Range(globe)
        /\ globe = SubSeq(map2D, 1, Min(MaxArcs, Len(map2D)))

\* An event with both coordinates was drawn until its mitigation resolved;
\* it is now Mitigated and neither the map nor the globe draws it.
C30_Witness ==
    /\ last.op = "mitigate"
    /\ Branch(last.mitResp) = "update"
    /\ Len(threats) = 1
    /\ threats[1].id = last.id
    /\ threats[1].status = "Mitigated"
    /\ HasBothCoords(threats[1])
    /\ visibleThreats([threats EXCEPT ![1].status = "Detected"]) # <<>>
    /\ visibleThreats(threats) = <<>>
    /\ visibleThreats3D(threats) = <<>>

\* C22. No handler ends in an unhandled fault: whatever the push channel
\* delivers and whatever the backend answers, no exception leaves a handler
\* uncaught.
C22_NoUnhandledFault == unhandled = <<>>

\* C23. The arc of every source and target is a sequence of exactly 51
\* points whose first point is the projection of the source and whose last
\* point is the projection of the target, both at the radius of the globe.
C23_ArcEndsAtProjections ==
    \A t \in Range(visibleThreats3D(threats)) :
        LET source == t.source_coords[1]
            target == t.target_coords[1]
            points == AttackArc(source, target)
        IN  /\ Len(points) = 51
            /\ points[1] = latLonToVector3(source.lat, source.lon, 2)
            /\ points[Len(points)] = latLonToVector3(target.lat, target.lon, 2)

\* The globe draws the arc from (60, -120) to (-30, 135): its middle point
\* is a proper blend of the two ends and the control point.
C23_Witness ==
    /\ Len(visibleThreats3D(threats)) = 1
    /\ threats[1].source_coords = Coords(60, -120)
    /\ threats[1].target_coords = Coords(-30, 135)
    /\ Len(AttackArc(threats[1].source_coords[1], threats[1].target_coords[1])) = 51
    /\ AttackArc(threats[1].source_coords[1], threats[1].target_coords[1])[26].weights
          = <<625, 1250, 625>>

====
